---- MODULE Spec2Model ----
(***************************************************************************)
(* Model of the mindx-voice backend: the Gemini text generation service    *)
(* (ai_services/gemini_service.py), the Whisper transcription service      *)
(* (ai_services/whisper_service.py), their API views (ai_services/views.py)*)
(* and the session endpoints (conversations/views.py).                     *)
(*                                                                         *)
(* Exceptions are modelled by their class names.  A provider error is a    *)
(* record [cls, words]: its class and the set of keywords that occur in    *)
(* str(error).lower().                                                      *)
(***************************************************************************)
EXTENDS Integers, Sequences, FiniteSets, TLC

VARIABLES
    \* ---- GeminiService (singleton gemini_service) and one generate_reply call
    g_api_key,        \* bool(config.api_key)
    g_initialized,    \* GeminiService._initialized
    g_pc,             \* "idle" | "running" | "done"
    g_attempt,        \* tenacity attempt_number of the current call
    g_calls,          \* chat.send_message calls made by the current call
    g_errors,         \* provider errors raised during the current call
    g_result,         \* what the caller of generate_reply observes
    \* ---- WhisperService and one TranscribeAudioView.post
    w_api_key,        \* bool(config.api_key)
    w_pc,             \* "idle" | "requesting" | "done"
    w_file,           \* the uploaded file: [name, size]
    w_attempt,        \* tenacity attempt_number of _make_request
    w_http,           \* HTTP requests sent by the current transcribe call
    w_failures,       \* outcomes of the failed attempts of the current call
    w_result,         \* what the caller of transcribe observes
    w_response,       \* the HTTP response of TranscribeAudioView.post
    \* ---- one ChatStreamView.post: event_stream() over generate_reply_stream()
    s_pc,             \* "idle" | "streaming" | "done"
    s_provided,       \* chunk.text of the chunks the provider produced so far
    s_chunks,         \* StreamChunks yielded by generate_reply_stream
    s_events,         \* events yielded by event_stream
    s_error,          \* class of the error the provider or _initialize raised
    \* ---- conversations: the Session table and the SessionViewSet endpoints
    c_sessions,       \* session id -> Session row (exists = FALSE: no such row)
    c_personas,       \* persona id -> Persona row (exists = FALSE: no such row)
    c_messages,       \* session id -> the session's Message rows, by order
    c_now,            \* timezone.now(), in seconds
    c_response        \* the last request's endpoint and HTTP status

gvars == <<g_api_key, g_initialized, g_pc, g_attempt, g_calls, g_errors, g_result>>
wvars == <<w_api_key, w_pc, w_file, w_attempt, w_http, w_failures, w_result, w_response>>
svars == <<s_pc, s_provided, s_chunks, s_events, s_error>>
cvars == <<c_personas, c_sessions, c_messages, c_now, c_response>>
vars == <<gvars, wvars, svars, cvars>>

Last(s) == s[Len(s)]

NoResult == [kind |-> "none", value |-> "none"]
Raise(cls) == [kind |-> "raise", value |-> cls]
Return(v) == [kind |-> "return", value |-> v]

(***************************************************************************)
(* ai_services/exceptions.py                                               *)
(***************************************************************************)
AIServiceErrorClasses ==
    {"AIServiceError", "APIKeyError", "RateLimitError", "QuotaExceededError",
     "ModelError", "ContentFilterError", "TimeoutError", "NetworkError",
     "InvalidRequestError", "GenerationError"}

\* The three classes whisper_service.py imports from .exceptions.
WhisperErrorClasses ==
    {"AIServiceConfigError", "AIServiceRateLimitError", "AIServiceTimeoutError"}

\* isinstance(e, AIServiceError)
IsAIServiceError(cls) == cls \in AIServiceErrorClasses \cup WhisperErrorClasses

\* e.code
ErrorCode(cls) ==
    CASE cls = "APIKeyError" -> "API_KEY_ERROR"
      [] cls = "RateLimitError" -> "RATE_LIMIT_ERROR"
      [] cls = "QuotaExceededError" -> "QUOTA_EXCEEDED"
      [] cls = "ModelError" -> "MODEL_ERROR"
      [] cls = "ContentFilterError" -> "CONTENT_FILTERED"
      [] cls = "TimeoutError" -> "TIMEOUT_ERROR"
      [] cls = "NetworkError" -> "NETWORK_ERROR"
      [] cls = "InvalidRequestError" -> "INVALID_REQUEST"
      [] cls = "GenerationError" -> "GENERATION_ERROR"
      [] OTHER -> "AI_ERROR"

(***************************************************************************)
(* tenacity: @retry(stop=stop_after_attempt(n),                            *)
(*                  retry=retry_if_exception_type(types))                   *)
(* After an attempt: run it again, give up with RetryError, or hand the    *)
(* attempt's own outcome to the caller.                                    *)
(***************************************************************************)
StopAfterAttempt == 3

\* a stop condition that is one attempt late
stop_after_attempt_late(attempt) == attempt > StopAfterAttempt

stop_after_attempt(attempt) == attempt >= StopAfterAttempt

retry_decision(result, attempt, types) ==
    IF result.kind = "raise" /\ result.value \in types
    THEN IF stop_after_attempt(attempt) THEN "RetryError" ELSE "retry"
    ELSE "propagate"

(***************************************************************************)
(* GeminiService                                                           *)
(***************************************************************************)
GoogleClasses ==
    {"InvalidArgument", "PermissionDenied", "ResourceExhausted",
     "DeadlineExceeded", "ServiceUnavailable", "InternalServerError"}

\* Other exceptions the SDK raises: another google.api_core error, and the
\* ValueError of response.text on a blocked candidate.
OtherClasses == {"NotFound", "ValueError"}

\* Phrases an error's text can contain, some of them capitalised
Keywords == {"api key", "api_key", "quota", "Quota", "blocked", "safety", "SAFETY"}

\* str(error).lower(), phrase by phrase
lower(words) ==
    {CASE w = "Quota" -> "quota"
       [] w = "SAFETY" -> "safety"
       [] OTHER -> w : w \in words}

ErrorTexts == SUBSET Keywords

ProviderErrors == [cls : GoogleClasses \cup OtherClasses, words : ErrorTexts]

OK == [cls |-> "ok", words |-> {}]

ProviderOutcomes == {OK} \cup ProviderErrors

\* GeminiService._initialize: the exception it raises ("none": it returns)
initialize(initialized, api_key, configure_fails) ==
    IF initialized THEN "none"
    ELSE IF ~api_key THEN "APIKeyError"
    ELSE IF configure_fails THEN "ModelError"
    ELSE "none"

\* _handle_error whose last branch returns instead of raising
handle_error_returns(error) ==
    IF error.cls = "InvalidArgument"
    THEN IF "api key" \in lower(error.words) \/ "api_key" \in lower(error.words)
         THEN Raise("APIKeyError") ELSE Raise("GenerationError")
    ELSE IF error.cls = "PermissionDenied" THEN Raise("APIKeyError")
    ELSE IF error.cls = "ResourceExhausted"
    THEN IF "quota" \in lower(error.words)
         THEN Raise("QuotaExceededError") ELSE Raise("RateLimitError")
    ELSE IF error.cls = "DeadlineExceeded" THEN Raise("TimeoutError")
    ELSE IF error.cls = "ServiceUnavailable" THEN Raise("NetworkError")
    ELSE IF error.cls = "InternalServerError" THEN Raise("GenerationError")
    ELSE IF "blocked" \in lower(error.words) \/ "safety" \in lower(error.words)
    THEN Raise("ContentFilterError")
    ELSE Return("None")

\* _handle_error with the test of the text before the tests of the class
handle_error_text_first(error) ==
    IF "blocked" \in lower(error.words) \/ "safety" \in lower(error.words)
    THEN Raise("ContentFilterError")
    ELSE IF error.cls = "InvalidArgument"
    THEN IF "api key" \in lower(error.words) \/ "api_key" \in lower(error.words)
         THEN Raise("APIKeyError") ELSE Raise("GenerationError")
    ELSE IF error.cls = "PermissionDenied" THEN Raise("APIKeyError")
    ELSE IF error.cls = "ResourceExhausted"
    THEN IF "quota" \in lower(error.words)
         THEN Raise("QuotaExceededError") ELSE Raise("RateLimitError")
    ELSE IF error.cls = "DeadlineExceeded" THEN Raise("TimeoutError")
    ELSE IF error.cls = "ServiceUnavailable" THEN Raise("NetworkError")
    ELSE Raise("GenerationError")

\* GeminiService._handle_error
handle_error(error) ==
    IF error.cls = "InvalidArgument"
    THEN IF "api key" \in lower(error.words) \/ "api_key" \in lower(error.words)
         THEN Raise("APIKeyError") ELSE Raise("GenerationError")
    ELSE IF error.cls = "PermissionDenied" THEN Raise("APIKeyError")
    ELSE IF error.cls = "ResourceExhausted"
    THEN IF "quota" \in lower(error.words)
         THEN Raise("QuotaExceededError") ELSE Raise("RateLimitError")
    ELSE IF error.cls = "DeadlineExceeded" THEN Raise("TimeoutError")
    ELSE IF error.cls = "ServiceUnavailable" THEN Raise("NetworkError")
    ELSE IF error.cls = "InternalServerError" THEN Raise("GenerationError")
    ELSE IF "blocked" \in lower(error.words) \/ "safety" \in lower(error.words)
    THEN Raise("ContentFilterError")
    ELSE Raise("GenerationError")

\* retry_if_exception_type of generate_reply
gemini_retry_types == {"ServiceUnavailable", "DeadlineExceeded", "InternalServerError"}

\* One execution of the body of generate_reply: what it returns or raises.
\* outcome is what chat.send_message / response.text does when it is reached.
generate_reply_body(init_raises, outcome) ==
    IF init_raises # "none" THEN Raise(init_raises)
    ELSE IF outcome = OK THEN Return("GenerationResponse")
    ELSE IF IsAIServiceError(outcome.cls) THEN Raise(outcome.cls)
    ELSE handle_error(outcome)

GInit ==
    /\ g_api_key \in BOOLEAN
    /\ g_initialized = FALSE
    /\ g_pc = "idle"
    /\ g_attempt = 0
    /\ g_calls = 0
    /\ g_errors = <<>>
    /\ g_result = NoResult

\* A caller invokes gemini_service.generate_reply(...)
generate_reply_call ==
    /\ g_pc \in {"idle", "done"}
    /\ g_pc' = "running"
    /\ g_attempt' = 0
    /\ g_calls' = 0
    /\ g_errors' = <<>>
    /\ g_result' = NoResult
    /\ UNCHANGED <<g_api_key, g_initialized, wvars, svars, cvars>>

\* One attempt of the retrying wrapper around generate_reply
generate_reply_attempt ==
    /\ g_pc = "running"
    /\ \E configure_fails \in BOOLEAN, outcome \in ProviderOutcomes :
         LET init_raises == initialize(g_initialized, g_api_key, configure_fails)
             result == generate_reply_body(init_raises, outcome)
             attempt == g_attempt + 1
             decision == retry_decision(result, attempt, gemini_retry_types)
         IN  /\ g_attempt' = attempt
             /\ g_initialized' = (g_initialized \/ init_raises = "none")
             /\ g_calls' = IF init_raises = "none" THEN g_calls + 1 ELSE g_calls
             /\ g_errors' = IF init_raises = "none" /\ outcome # OK
                            THEN Append(g_errors, outcome) ELSE g_errors
             /\ IF decision = "retry"
                THEN /\ g_pc' = "running"
                     /\ g_result' = NoResult
                ELSE /\ g_pc' = "done"
                     /\ g_result' = IF decision = "RetryError"
                                    THEN Raise("RetryError") ELSE result
    /\ UNCHANGED <<g_api_key, wvars, svars, cvars>>

(***************************************************************************)
(* GeminiService.generate_reply_stream and ChatStreamView                  *)
(***************************************************************************)
MaxChunks == 3

MaxTokens == 1

\* chunk.text of a provider chunk ("": a chunk without text)
ChunkTexts == {"", "Xin", "chao"}

\* models.StreamChunk / StreamChunk.to_dict
StreamChunk(content, is_final, tokens_used) ==
    [content |-> content, is_final |-> is_final, tokens_used |-> tokens_used]

NoChunk == StreamChunk("", FALSE, 0)

\* f"data: {json.dumps(chunk.to_dict())}\n\n"
ChunkEvent(chunk) == [type |-> "chunk", chunk |-> chunk, code |-> ""]

\* "data: [DONE]\n\n"
DoneEvent == [type |-> "done", chunk |-> NoChunk, code |-> ""]

\* f"data: {json.dumps({'error': {'code': ...}})}\n\n"
ErrorEvent(code) == [type |-> "error", chunk |-> NoChunk, code |-> code]

\* the loop body without "if chunk.text"
yield_every_chunk(text) == <<StreamChunk(text, FALSE, 0)>>

\* generate_reply_stream, the body of "for chunk in response": what it yields
yield_chunk(text) ==
    IF text # "" THEN <<StreamChunk(text, FALSE, 0)>> ELSE <<>>

\* event_stream with "[DONE]" sent after the except clauses as well
event_stream_end_done_always(result) ==
    IF result.kind = "return" THEN <<DoneEvent>>
    ELSE IF IsAIServiceError(result.value)
    THEN <<ErrorEvent(ErrorCode(result.value)), DoneEvent>>
    ELSE <<ErrorEvent("STREAM_ERROR"), DoneEvent>>

\* event_stream: what it yields once generate_reply_stream has returned or raised
event_stream_end(result) ==
    IF result.kind = "return" THEN <<DoneEvent>>
    ELSE IF IsAIServiceError(result.value) THEN <<ErrorEvent(ErrorCode(result.value))>>
    ELSE <<ErrorEvent("STREAM_ERROR")>>

\* generate_reply_stream's except clauses, for an exception raised in its try
stream_except(error) ==
    IF IsAIServiceError(error.cls) THEN Raise(error.cls) ELSE handle_error(error)

ChunkEvents(chunks) == [i \in 1..Len(chunks) |-> ChunkEvent(chunks[i])]

SInit ==
    /\ s_pc = "idle"
    /\ s_provided = <<>>
    /\ s_chunks = <<>>
    /\ s_events = <<>>
    /\ s_error = "none"

\* ChatStreamView.post with a valid request, up to the provider's answer to
\* chat.send_message(stream=True): _initialize or the provider may raise.
chat_stream_post ==
    /\ s_pc \in {"idle", "done"}
    /\ \E configure_fails \in BOOLEAN, outcome \in ProviderOutcomes :
         LET init_raises == initialize(g_initialized, g_api_key, configure_fails)
             result == IF init_raises # "none" THEN Raise(init_raises)
                       ELSE IF outcome = OK THEN NoResult
                       ELSE stream_except(outcome)
         IN  /\ g_initialized' = (g_initialized \/ init_raises = "none")
             /\ s_provided' = <<>>
             /\ s_chunks' = <<>>
             /\ IF result = NoResult
                THEN /\ s_pc' = "streaming"
                     /\ s_events' = <<>>
                     /\ s_error' = "none"
                ELSE /\ s_pc' = "done"
                     /\ s_events' = event_stream_end(result)
                     /\ s_error' = IF init_raises # "none" THEN init_raises ELSE outcome.cls
    /\ UNCHANGED <<g_api_key, g_pc, g_attempt, g_calls, g_errors, g_result, wvars, cvars>>

\* The provider produces the next chunk of the response.
stream_chunk ==
    /\ s_pc = "streaming"
    /\ Len(s_provided) < MaxChunks
    /\ \E text \in ChunkTexts :
         LET yielded == yield_chunk(text)
         IN  /\ s_provided' = Append(s_provided, text)
             /\ s_chunks' = s_chunks \o yielded
             /\ s_events' = s_events \o ChunkEvents(yielded)
    /\ UNCHANGED <<s_pc, s_error, gvars, wvars, cvars>>

\* The provider raises while the response is iterated.
stream_error ==
    /\ s_pc = "streaming"
    /\ \E error \in ProviderErrors :
         LET result == stream_except(error)
         IN  /\ s_pc' = "done"
             /\ s_error' = error.cls
             /\ s_events' = s_events \o event_stream_end(result)
    /\ UNCHANGED <<s_provided, s_chunks, gvars, wvars, cvars>>

\* The provider's response is exhausted: the final chunk, then the generator
\* returns.
stream_end ==
    /\ s_pc = "streaming"
    /\ \E total_tokens \in 0..MaxTokens :
         LET final == StreamChunk("", TRUE, total_tokens)
         IN  /\ s_chunks' = Append(s_chunks, final)
             /\ s_events' = (s_events \o <<ChunkEvent(final)>>)
                               \o event_stream_end(Return("None"))
    /\ s_pc' = "done"
    /\ UNCHANGED <<s_provided, s_error, gvars, wvars, cvars>>

(***************************************************************************)
(* WhisperService                                                          *)
(***************************************************************************)
\* WhisperConfig.supported_formats
supported_formats == {"mp3", "mp4", "mpeg", "mpga", "m4a", "wav", "webm", "ogg", "flac"}

\* WhisperConfig.max_file_size_mb
max_file_size_mb == 25

max_bytes == max_file_size_mb * 1024 * 1024

\* A filename is the sequence of its dot-separated parts: "a.tar.gz" is
\* <<"a", "tar", "gz">>, "audio" is <<"audio">>, "audio." is <<"audio", "">>.
Filenames ==
    {<<"audio">>, <<"wav">>, <<"audio", "wav">>, <<"audio", "WAV">>, <<"audio", "Mp3">>,
     <<"audio", "txt">>, <<"audio", "wav", "txt">>, <<"audio", "txt", "ogg">>,
     <<"audio", "">>}

\* str.lower() on the parts used here
Lower(s) ==
    CASE s = "WAV" -> "wav"
      [] s = "Mp3" -> "mp3"
      [] OTHER -> s

\* get_audio_format: filename.rsplit(".", 1)[-1].lower(), "" without a dot
get_audio_format(filename) ==
    IF Len(filename) < 2 THEN "" ELSE Lower(Last(filename))

\* WhisperConfig.is_supported_format
is_supported_format(filename) ==
    LET ext == IF Len(filename) >= 2 THEN Lower(filename[Len(filename)]) ELSE ""
    IN  ext \in supported_formats

FileSizes == {0, 1, max_bytes - 1, max_bytes, max_bytes + 1}

NoFile == [name |-> <<>>, size |-> 0, present |-> FALSE]

Files == [name : Filenames, size : FileSizes, present : {TRUE}]

\* validate_audio_file without the check for empty data
validate_audio_file_nonempty_unchecked(file) ==
    IF ~is_supported_format(file.name) THEN Raise("AIServiceError")
    ELSE IF file.size > max_bytes THEN Raise("AIServiceError")
    ELSE Return("AudioMetadata")

\* validate_audio_file
validate_audio_file(file) ==
    IF ~is_supported_format(file.name) THEN Raise("AIServiceError")
    ELSE IF file.size > max_bytes THEN Raise("AIServiceError")
    ELSE IF file.size = 0 THEN Raise("AIServiceError")
    ELSE Return("AudioMetadata")

\* What one client.post(...) does: an HTTP status, or one of the httpx
\* transport errors the module names (TimeoutException, ConnectError).
HttpStatuses == {200, 400, 401, 429, 500, 502, 503, 504}

HttpOutcomes ==
    [kind : {"status"}, status : HttpStatuses]
        \cup [kind : {"TimeoutException", "ConnectError"}, status : {0}]

NotConfigured == [kind |-> "not_configured", status |-> 0]

\* WhisperService._should_retry, on the exception client.post raised
should_retry(outcome) ==
    IF outcome.kind = "status" /\ outcome.status >= 400
    THEN outcome.status \in {429, 500, 502, 503, 504}
    ELSE outcome.kind \in {"TimeoutException", "ConnectError"}

\* retry_if_exception_type of _make_request
whisper_retry_types == {"TimeoutException", "ConnectError", "AIServiceRateLimitError"}

\* One execution of the body of _make_request
make_request_body(api_key, outcome) ==
    IF ~api_key THEN Raise("AIServiceConfigError")
    ELSE IF outcome.kind = "status"
    THEN IF outcome.status < 400 THEN Return("dict")
         ELSE IF outcome.status = 429 THEN Raise("AIServiceRateLimitError")
         ELSE IF outcome.status = 401 THEN Raise("AIServiceConfigError")
         ELSE IF outcome.status >= 500 THEN Raise("AIServiceError")
         ELSE Raise("AIServiceError")
    ELSE IF outcome.kind = "TimeoutException" THEN Raise("AIServiceTimeoutError")
    ELSE Raise(outcome.kind)

Response(status, code) == [status |-> status, code |-> code]

NoResponse == Response(0, "none")

\* the view with its AIServiceError branch ahead of the AIServiceConfigError one
transcribe_response_config_branch_last(result) ==
    IF result.kind = "return" THEN Response(200, "success")
    ELSE IF IsAIServiceError(result.value) THEN Response(500, ErrorCode(result.value))
    ELSE IF result.value = "AIServiceConfigError" THEN Response(503, "NOT_CONFIGURED")
    ELSE Response(500, "INTERNAL_ERROR")

\* TranscribeAudioView.post: the response for what whisper.transcribe did
transcribe_response(result) ==
    IF result.kind = "return" THEN Response(200, "success")
    ELSE IF result.value = "AIServiceConfigError" THEN Response(503, "NOT_CONFIGURED")
    ELSE IF IsAIServiceError(result.value) THEN Response(500, ErrorCode(result.value))
    ELSE Response(500, "INTERNAL_ERROR")

WInit ==
    /\ w_api_key \in BOOLEAN
    /\ w_pc = "idle"
    /\ w_file = NoFile
    /\ w_attempt = 0
    /\ w_http = 0
    /\ w_failures = <<>>
    /\ w_result = NoResult
    /\ w_response = NoResponse

\* TranscribeAudioView.post up to the first attempt of _make_request:
\* the upload is read and WhisperService.transcribe validates it.
transcribe_post ==
    /\ w_pc \in {"idle", "done"}
    /\ \E file \in Files \cup {NoFile} :
         /\ w_file' = file
         /\ w_attempt' = 0
         /\ w_http' = 0
         /\ w_failures' = <<>>
         /\ IF ~file.present
            THEN /\ w_pc' = "done"
                 /\ w_result' = NoResult
                 /\ w_response' = Response(400, "MISSING_AUDIO")
            ELSE LET valid == validate_audio_file(file)
                 IN  IF valid.kind = "raise"
                     THEN /\ w_pc' = "done"
                          /\ w_result' = valid
                          /\ w_response' = transcribe_response(valid)
                     ELSE /\ w_pc' = "requesting"
                          /\ w_result' = NoResult
                          /\ w_response' = NoResponse
    /\ UNCHANGED <<w_api_key, gvars, svars, cvars>>

\* One attempt of the retrying wrapper around _make_request; when it is the
\* last one, transcribe re-raises or returns and the view answers.
make_request_attempt ==
    /\ w_pc = "requesting"
    /\ \E sent \in HttpOutcomes :
         LET outcome == IF w_api_key THEN sent ELSE NotConfigured
             result == make_request_body(w_api_key, outcome)
             attempt == w_attempt + 1
             decision == retry_decision(result, attempt, whisper_retry_types)
             final == IF decision = "RetryError" THEN Raise("RetryError")
                      ELSE IF result.kind = "return" THEN Return("TranscriptionResult")
                      ELSE result
         IN  /\ w_attempt' = attempt
             /\ w_http' = IF w_api_key THEN w_http + 1 ELSE w_http
             /\ w_failures' = IF result.kind = "raise"
                              THEN Append(w_failures, outcome) ELSE w_failures
             /\ IF decision = "retry"
                THEN /\ w_pc' = "requesting"
                     /\ w_result' = NoResult
                     /\ w_response' = NoResponse
                ELSE /\ w_pc' = "done"
                     /\ w_result' = final
                     /\ w_response' = transcribe_response(final)
    /\ UNCHANGED <<w_api_key, w_file, gvars, svars, cvars>>

(***************************************************************************)
(* conversations: Session and SessionViewSet                               *)
(***************************************************************************)
MaxClock == 1

Users == {"alice", "bob"}

\* The primary keys of the Session table.  The endpoints modelled here read
\* and write the one row the request names, so one row is followed.
SessionIds == {"s1"}

\* The primary keys of the Persona table
PersonaIds == {"p1", "p2"}

\* Users with is_staff
StaffUsers == {"root"}

\* The authenticated users who send requests to the persona endpoints
Requesters == Users \cup StaffUsers

is_staff(user) == user \in StaffUsers

NoPersona == [exists |-> FALSE, created_by |-> "", is_active |-> FALSE]

\* Session.SessionStatus
SessionStatuses == {"active", "completed", "abandoned"}

\* An optional value: None, or Some(v)
None == [some |-> FALSE, v |-> 0]
Some(x) == [some |-> TRUE, v |-> x]

NoText == [some |-> FALSE, v |-> ""]

NoSession ==
    [exists |-> FALSE, user |-> "", persona |-> "", status |-> "", started_at |-> 0, ended_at |-> None,
     rating |-> None, feedback |-> "", total_duration_seconds |-> 0,
     total_messages |-> 0]

\* Session.calculate_duration
calculate_duration(session) ==
    IF session.ended_at.some THEN session.ended_at.v - session.started_at ELSE 0

\* Session.save
save(session) ==
    IF session.ended_at.some
    THEN [session EXCEPT !.total_duration_seconds = calculate_duration(session)]
    ELSE session

\* Texts a request can carry; "x2001" stands for a text of 2001 characters.
StrLen(text) ==
    CASE text = "" -> 0
      [] text = "ok" -> 2
      [] text = " ok " -> 4
      [] text = "x2001" -> 2001
      [] text = "  " -> 2
      [] text = "x10001" -> 10001

\* serializers.CharField: surrounding whitespace is trimmed
Trim(text) ==
    CASE text = " ok " -> "ok"
      [] text = "  " -> ""
      [] OTHER -> text

\* The body of an 'end' request: rating and feedback, each optional
EndData ==
    {[rating |-> None, feedback |-> NoText],
     [rating |-> Some(4), feedback |-> NoText],
     [rating |-> None, feedback |-> Some(" ok ")],
     [rating |-> Some(4), feedback |-> Some(" ok ")],
     [rating |-> Some(6), feedback |-> NoText],
     [rating |-> Some(0), feedback |-> Some(" ok ")],
     [rating |-> None, feedback |-> Some("x2001")]}

\* SessionEndSerializer.is_valid
SessionEndSerializer_is_valid(data) ==
    /\ data.rating.some => (data.rating.v >= 1 /\ data.rating.v <= 5)
    /\ data.feedback.some => StrLen(Trim(data.feedback.v)) <= 2000

\* The body of a PATCH: status, rating and feedback, each optional
UpdateData ==
    {[status |-> Some(st), rating |-> None, feedback |-> NoText] : st \in SessionStatuses}
        \cup {[status |-> NoText, rating |-> Some(3), feedback |-> Some(" ok ")],
              [status |-> NoText, rating |-> Some(6), feedback |-> NoText]}

\* SessionUpdateSerializer.is_valid (validate_rating, validate_feedback)
SessionUpdateSerializer_is_valid(data) ==
    /\ data.rating.some =>
          ~(data.rating.v # 0 /\ (data.rating.v < 1 \/ data.rating.v > 5))
    /\ data.feedback.some => StrLen(Trim(data.feedback.v)) <= 2000

\* SessionCreateSerializer.is_valid: the persona exists, validate_persona
SessionCreateSerializer_is_valid(pid) ==
    c_personas[pid].exists /\ c_personas[pid].is_active

\* PersonaViewSet.get_queryset for an authenticated user: staff see every
\* persona, the others the active ones and their own
persona_visible(user, pid) ==
    /\ c_personas[pid].exists
    /\ \/ is_staff(user)
       \/ c_personas[pid].is_active
       \/ c_personas[pid].created_by = user

\* IsOwnerOrReadOnly.has_object_permission for an unsafe method
IsOwnerOrReadOnly(user, pid) ==
    c_personas[pid].created_by = user \/ is_staff(user)

\* instance.sessions.filter(status=ACTIVE).count()
active_sessions(pid) ==
    Cardinality({sid \in SessionIds :
                    /\ c_sessions[sid].exists
                    /\ c_sessions[sid].persona = pid
                    /\ c_sessions[sid].status = "active"})

\* a delete that leaves the persona's sessions behind
cascade_sessions_none(pid) == c_sessions

\* on_delete=CASCADE of Session.persona: the sessions left when pid goes
cascade_sessions(pid) ==
    [sid \in SessionIds |->
        IF c_sessions[sid].exists /\ c_sessions[sid].persona = pid
        THEN NoSession ELSE c_sessions[sid]]

\* on_delete=CASCADE of Message.session: the messages left when pid goes
cascade_messages(pid) ==
    [sid \in SessionIds |->
        IF c_sessions[sid].exists /\ c_sessions[sid].persona = pid
        THEN <<>> ELSE c_messages[sid]]

\* SessionViewSet.get_object over get_queryset: the requester's own sessions
get_object(user, sid) ==
    c_sessions[sid].exists /\ c_sessions[sid].user = user

\* end with validated_data.get(...) in place of the "in validated_data" tests
end_session_overwrites(session, data, now) ==
    save([session EXCEPT !.status = "completed",
                         !.ended_at = Some(now),
                         !.rating = data.rating,
                         !.feedback = IF data.feedback.some
                                      THEN Trim(data.feedback.v) ELSE ""])

\* SessionViewSet.end, from "# Update session" to session.save()
end_session(session, data, now) ==
    save([session EXCEPT !.status = "completed",
                         !.ended_at = Some(now),
                         !.rating = IF data.rating.some THEN data.rating ELSE @,
                         !.feedback = IF data.feedback.some
                                      THEN Trim(data.feedback.v) ELSE @])

\* SessionViewSet.abandon, the update and session.save()
abandon_session(session, now) ==
    save([session EXCEPT !.status = "abandoned", !.ended_at = Some(now)])

\* SessionUpdateSerializer.save: the supplied fields, then Session.save
update_session(session, data) ==
    save([session EXCEPT !.status = IF data.status.some THEN data.status.v ELSE @,
                         !.rating = IF data.rating.some THEN data.rating ELSE @,
                         !.feedback = IF data.feedback.some
                                      THEN Trim(data.feedback.v) ELSE @])

\* Message.MessageRole and Message.MessageType
MessageRoles == {"user", "assistant", "system"}

MessageTypes == {"text", "voice", "image"}

MaxMessages == 2

\* The body of an add_message request
MessageData ==
    {[role |-> "user", content |-> " ok ", message_type |-> "text", audio_url |-> ""],
     [role |-> "assistant", content |-> "ok", message_type |-> "voice",
      audio_url |-> "https://a/1.wav"],
     [role |-> "system", content |-> "ok", message_type |-> "text", audio_url |-> ""],
     [role |-> "user", content |-> "  ", message_type |-> "text", audio_url |-> ""],
     [role |-> "user", content |-> "x10001", message_type |-> "text", audio_url |-> ""],
     [role |-> "user", content |-> "ok", message_type |-> "voice", audio_url |-> ""],
     [role |-> "moderator", content |-> "ok", message_type |-> "text", audio_url |-> ""]}

\* MessageCreateSerializer.is_valid: the model's choices, validate_role,
\* validate_content, validate
MessageCreateSerializer_is_valid(data) ==
    /\ data.role \in MessageRoles
    /\ data.message_type \in MessageTypes
    /\ data.role \in {"user", "assistant"}
    /\ Trim(data.content) # ""
    /\ StrLen(Trim(data.content)) <= 10000
    /\ ~(data.message_type = "voice" /\ data.audio_url = "")

\* Message.save of a new row: the order after the session's last, the row
\* stored; messages is the session's rows by order
Message_save(messages, data) ==
    LET order == IF messages = <<>> THEN 1 ELSE Last(messages).order + 1
    IN  Append(messages, [role |-> data.role, content |-> Trim(data.content),
                          message_type |-> data.message_type, order |-> order])

\* Message.save, after the row is stored: the session's message count
update_total_messages(session, messages) ==
    [session EXCEPT !.total_messages = Len(messages)]

Answer(op, status) == [op |-> op, status |-> status]

CInit ==
    /\ c_sessions = [sid \in SessionIds |-> NoSession]
    /\ c_personas = [pid \in PersonaIds |-> NoPersona]
    /\ c_messages = [sid \in SessionIds |-> <<>>]
    /\ c_now = 0
    /\ c_response = Answer("none", 0)

\* ... after alice created the active persona p1
CInitWithPersona ==
    /\ c_personas = [pid \in PersonaIds |->
                        IF pid = "p1"
                        THEN [exists |-> TRUE, created_by |-> "alice", is_active |-> TRUE]
                        ELSE NoPersona]
    /\ c_sessions = [sid \in SessionIds |-> NoSession]
    /\ c_messages = [sid \in SessionIds |-> <<>>]
    /\ c_now = 0
    /\ c_response = Answer("persona_create", 201)

\* Time passes.
tick ==
    /\ c_now < MaxClock
    /\ c_now' = c_now + 1
    /\ UNCHANGED <<c_personas, c_sessions, c_messages, c_response, gvars, wvars, svars>>

\* SessionViewSet.create; sid is the new row's id
create(user, sid, pid) ==
    /\ ~c_sessions[sid].exists
    /\ IF ~SessionCreateSerializer_is_valid(pid)
       THEN /\ c_response' = Answer("create", 400)
            /\ UNCHANGED c_sessions
       ELSE /\ c_sessions' = [c_sessions EXCEPT ![sid] =
                                [NoSession EXCEPT !.exists = TRUE, !.user = user,
                                                  !.persona = pid, !.status = "active",
                                                  !.started_at = c_now]]
            /\ c_response' = Answer("create", 201)
    /\ UNCHANGED <<c_personas, c_messages, c_now, gvars, wvars, svars>>

\* SessionViewSet.partial_update
partial_update(user, sid, data) ==
    /\ IF ~get_object(user, sid)
       THEN /\ c_response' = Answer("partial_update", 404)
            /\ UNCHANGED c_sessions
       ELSE IF ~SessionUpdateSerializer_is_valid(data)
       THEN /\ c_response' = Answer("partial_update", 400)
            /\ UNCHANGED c_sessions
       ELSE /\ c_sessions' = [c_sessions EXCEPT ![sid] = update_session(@, data)]
            /\ c_response' = Answer("partial_update", 200)
    /\ UNCHANGED <<c_personas, c_messages, c_now, gvars, wvars, svars>>

\* SessionViewSet.end
end(user, sid, data) ==
    /\ IF ~get_object(user, sid)
       THEN /\ c_response' = Answer("end", 404)
            /\ UNCHANGED c_sessions
       ELSE IF c_sessions[sid].status # "active"
       THEN /\ c_response' = Answer("end", 400)
            /\ UNCHANGED c_sessions
       ELSE IF ~SessionEndSerializer_is_valid(data)
       THEN /\ c_response' = Answer("end", 400)
            /\ UNCHANGED c_sessions
       ELSE /\ c_sessions' = [c_sessions EXCEPT ![sid] = end_session(@, data, c_now)]
            /\ c_response' = Answer("end", 200)
    /\ UNCHANGED <<c_personas, c_messages, c_now, gvars, wvars, svars>>

\* abandon without the test of session.status
abandon_unchecked(user, sid) ==
    /\ IF ~get_object(user, sid)
       THEN /\ c_response' = Answer("abandon", 404)
            /\ UNCHANGED c_sessions
       ELSE /\ c_sessions' = [c_sessions EXCEPT ![sid] = abandon_session(@, c_now)]
            /\ c_response' = Answer("abandon", 200)
    /\ UNCHANGED <<c_personas, c_messages, c_now, gvars, wvars, svars>>

\* SessionViewSet.abandon
abandon(user, sid) ==
    /\ IF ~get_object(user, sid)
       THEN /\ c_response' = Answer("abandon", 404)
            /\ UNCHANGED c_sessions
       ELSE IF c_sessions[sid].status # "active"
       THEN /\ c_response' = Answer("abandon", 400)
            /\ UNCHANGED c_sessions
       ELSE /\ c_sessions' = [c_sessions EXCEPT ![sid] = abandon_session(@, c_now)]
            /\ c_response' = Answer("abandon", 200)
    /\ UNCHANGED <<c_personas, c_messages, c_now, gvars, wvars, svars>>

\* add_message without the test of session.status
add_message_unchecked(user, sid, data) ==
    /\ IF ~get_object(user, sid)
       THEN /\ c_response' = Answer("add_message", 404)
            /\ UNCHANGED <<c_sessions, c_messages>>
       ELSE IF ~MessageCreateSerializer_is_valid(data)
       THEN /\ c_response' = Answer("add_message", 400)
            /\ UNCHANGED <<c_sessions, c_messages>>
       ELSE LET messages == Message_save(c_messages[sid], data)
            IN  /\ c_messages' = [c_messages EXCEPT ![sid] = messages]
                /\ c_sessions' = [c_sessions EXCEPT
                                     ![sid] = update_total_messages(@, messages)]
                /\ c_response' = Answer("add_message", 201)
    /\ UNCHANGED <<c_personas, c_now, gvars, wvars, svars>>

\* SessionViewSet.add_message
add_message(user, sid, data) ==
    /\ IF ~get_object(user, sid)
       THEN /\ c_response' = Answer("add_message", 404)
            /\ UNCHANGED <<c_sessions, c_messages>>
       ELSE IF c_sessions[sid].status # "active"
       THEN /\ c_response' = Answer("add_message", 400)
            /\ UNCHANGED <<c_sessions, c_messages>>
       ELSE IF ~MessageCreateSerializer_is_valid(data)
       THEN /\ c_response' = Answer("add_message", 400)
            /\ UNCHANGED <<c_sessions, c_messages>>
       ELSE LET messages == Message_save(c_messages[sid], data)
            IN  /\ c_messages' = [c_messages EXCEPT ![sid] = messages]
                /\ c_sessions' = [c_sessions EXCEPT
                                     ![sid] = update_total_messages(@, messages)]
                /\ c_response' = Answer("add_message", 201)
    /\ UNCHANGED <<c_personas, c_now, gvars, wvars, svars>>

\* PersonaViewSet.create with a valid body; pid is the new row's id
persona_create_request(user, pid, is_active) ==
    /\ ~c_personas[pid].exists
    /\ c_personas' = [c_personas EXCEPT ![pid] =
                         [exists |-> TRUE, created_by |-> user, is_active |-> is_active]]
    /\ c_response' = Answer("persona_create", 201)
    /\ UNCHANGED <<c_sessions, c_messages, c_now, gvars, wvars, svars>>

\* PersonaViewSet.update with a valid body that sets is_active
persona_update_request(user, pid, is_active) ==
    /\ IF ~persona_visible(user, pid)
       THEN /\ c_response' = Answer("persona_update", 404)
            /\ UNCHANGED c_personas
       ELSE IF ~IsOwnerOrReadOnly(user, pid)
       THEN /\ c_response' = Answer("persona_update", 403)
            /\ UNCHANGED c_personas
       ELSE /\ c_personas' = [c_personas EXCEPT ![pid].is_active = is_active]
            /\ c_response' = Answer("persona_update", 200)
    /\ UNCHANGED <<c_sessions, c_messages, c_now, gvars, wvars, svars>>

\* PersonaViewSet.destroy
destroy(user, pid) ==
    /\ IF ~persona_visible(user, pid)
       THEN /\ c_response' = Answer("destroy", 404)
            /\ UNCHANGED <<c_personas, c_sessions, c_messages>>
       ELSE IF ~IsOwnerOrReadOnly(user, pid)
       THEN /\ c_response' = Answer("destroy", 403)
            /\ UNCHANGED <<c_personas, c_sessions, c_messages>>
       ELSE IF active_sessions(pid) > 0
       THEN /\ c_response' = Answer("destroy", 400)
            /\ UNCHANGED <<c_personas, c_sessions, c_messages>>
       ELSE /\ c_personas' = [c_personas EXCEPT ![pid] = NoPersona]
            /\ c_sessions' = cascade_sessions(pid)
            /\ c_messages' = cascade_messages(pid)
            /\ c_response' = Answer("destroy", 204)
    /\ UNCHANGED <<c_now, gvars, wvars, svars>>

persona_create ==
    \E user \in Requesters, pid \in PersonaIds, is_active \in BOOLEAN :
        persona_create_request(user, pid, is_active)

persona_update ==
    \E user \in Requesters, pid \in PersonaIds, is_active \in BOOLEAN :
        persona_update_request(user, pid, is_active)

persona_destroy == \E user \in Requesters, pid \in PersonaIds : destroy(user, pid)

session_create ==
    \E user \in Users, sid \in SessionIds, pid \in PersonaIds : create(user, sid, pid)

session_partial_update ==
    \E user \in Users, sid \in SessionIds, data \in UpdateData :
        partial_update(user, sid, data)

session_end == \E user \in Users, sid \in SessionIds, data \in EndData : end(user, sid, data)

session_abandon == \E user \in Users, sid \in SessionIds : abandon(user, sid)

session_add_message ==
    \E user \in Users, sid \in SessionIds, data \in MessageData :
        /\ Len(c_messages[sid]) < MaxMessages
        /\ add_message(user, sid, data)

(***************************************************************************)
(* Specifications                                                          *)
(***************************************************************************)
Init == GInit /\ WInit /\ SInit /\ CInit

Next ==
    \/ generate_reply_call
    \/ generate_reply_attempt
    \/ chat_stream_post
    \/ stream_chunk
    \/ stream_error
    \/ stream_end
    \/ transcribe_post
    \/ make_request_attempt
    \/ tick
    \/ session_create
    \/ session_partial_update
    \/ session_end
    \/ session_abandon
    \/ session_add_message
    \/ persona_create
    \/ persona_update
    \/ persona_destroy

Spec == Init /\ [][Next]_vars

\* generate_reply alone
InitGemini == GInit /\ SInit /\ WInit /\ w_api_key = TRUE /\ CInit

NextGemini ==
    \/ generate_reply_call
    \/ generate_reply_attempt

SpecGemini == InitGemini /\ [][NextGemini]_vars

\* the streaming chat endpoint alone
NextStream ==
    \/ chat_stream_post
    \/ stream_chunk
    \/ stream_error
    \/ stream_end

SpecStream == InitGemini /\ [][NextStream]_vars

\* the transcribe endpoint alone
InitWhisper == GInit /\ g_api_key = TRUE /\ SInit /\ WInit /\ CInit

NextWhisper ==
    \/ transcribe_post
    \/ make_request_attempt

SpecWhisper == InitWhisper /\ [][NextWhisper]_vars

\* ... where a started attempt of _make_request always completes
SpecWhisperFair == SpecWhisper /\ WF_vars(make_request_attempt)

\* the session endpoints alone
InitSessions ==
    GInit /\ g_api_key = TRUE /\ SInit /\ WInit /\ w_api_key = TRUE /\ CInitWithPersona

NextSessions ==
    \/ tick
    \/ session_create
    \/ session_partial_update
    \/ session_end
    \/ session_abandon
    \/ session_add_message

SpecSessions == InitSessions /\ [][NextSessions]_vars

\* the persona endpoints, with the session endpoints that create sessions and
\* messages and end sessions
InitPersonas == GInit /\ g_api_key = TRUE /\ SInit /\ WInit /\ w_api_key = TRUE /\ CInit

NextPersonas ==
    \/ persona_create
    \/ persona_update
    \/ persona_destroy
    \/ session_create
    \/ session_end
    \/ session_add_message

SpecPersonas == InitPersonas /\ [][NextPersonas]_vars

(***************************************************************************)
(* Claims                                                                  *)
(***************************************************************************)
TransientClasses == {"ServiceUnavailable", "DeadlineExceeded", "InternalServerError"}

\* C1: when the provider call inside generate_reply fails with a transient
\* provider error, the call is attempted again: a failure whose last provider
\* error was transient reaches the caller only after 3 provider calls.
C1_TransientFailureAfterThreeCalls ==
    (/\ g_pc = "done"
     /\ g_result.kind = "raise"
     /\ g_errors # <<>>
     /\ Last(g_errors).cls \in TransientClasses)
        => g_calls = 3

\* C2: every finished generate_reply either returned a GenerationResponse or
\* raised an AIServiceError (or subclass): never None, never a raw provider
\* exception, never tenacity's RetryError.
C2_ReturnsResponseOrRaisesAIServiceError ==
    g_pc = "done" =>
        \/ g_result = Return("GenerationResponse")
        \/ g_result.kind = "raise" /\ IsAIServiceError(g_result.value)

\* C2 witness: a provider error of a class _handle_error has no branch for
\* reached the caller, translated.
C2_Witness ==
    /\ g_pc = "done"
    /\ g_errors # <<>>
    /\ Last(g_errors) = [cls |-> "NotFound", words |-> {}]
    /\ g_result = Raise("GenerationError")

\* C3: a transcription request failing with 429, 500, 502, 503, 504, a timeout
\* or a connection error is retried (its failure reaches the caller only once
\* the attempts are used up), and only such failures are followed by another
\* attempt.
C3_RetriesRateLimitServerErrorTimeoutConnect ==
    /\ (/\ w_pc = "done"
        /\ w_result.kind = "raise"
        /\ w_failures # <<>>
        /\ should_retry(Last(w_failures)))
           => w_attempt = 3
    /\ \A i \in 1..(Len(w_failures) - 1) : should_retry(w_failures[i])

\* C4: every failure of transcribe reaches the caller as an AIServiceError (or
\* subclass), so the view never answers it from its generic INTERNAL_ERROR
\* branch.
C4_FailuresAreAIServiceErrors ==
    (w_pc = "done" /\ w_result.kind = "raise")
        => /\ IsAIServiceError(w_result.value)
           /\ w_response.code # "INTERNAL_ERROR"

\* C5: one transcribe call sends at most 3 HTTP requests, and once it has
\* started requesting it ends with a result or an error.
C5_AtMostThreeRequestsAndTerminates ==
    /\ [](w_http <= 3)
    /\ [](w_pc = "requesting" => <>(w_pc = "done" /\ w_result.kind \in {"return", "raise"}))

\* C5 witness: a call that used all three requests and ended.
C5_Witness ==
    /\ w_pc = "done"
    /\ w_http = 3
    /\ Len(w_failures) = 3

\* The claim's own reading of an invalid upload.
InvalidAudio(file) ==
    \/ get_audio_format(file.name) \notin
           {"mp3", "mp4", "mpeg", "mpga", "m4a", "wav", "webm", "ogg", "flac"}
    \/ file.size > 25 * 1024 * 1024
    \/ file.size = 0

\* C6: an upload with an unsupported extension, more than 25 MB of data, or no
\* data fails in transcribe with AIServiceError before any HTTP request is sent.
C6_InvalidAudioFailsWithoutRequest ==
    (w_file.present /\ InvalidAudio(w_file))
        => /\ w_pc = "done"
           /\ w_result.kind = "raise"
           /\ IsAIServiceError(w_result.value)
           /\ w_http = 0
           /\ w_attempt = 0

\* C6 witness: an empty file with a supported extension was refused.
C6_Witness ==
    /\ w_pc = "done"
    /\ w_file.present
    /\ w_file.size = 0
    /\ get_audio_format(w_file.name) = "wav"
    /\ w_api_key
    /\ w_result = Raise("AIServiceError")

\* C7: without an API key, transcribing a valid file fails with the
\* configuration error on the first attempt, with no HTTP request and no
\* retry, and the endpoint answers 503 NOT_CONFIGURED.
C7_NoKeyFailsFirstAttemptWith503 ==
    (w_file.present /\ ~InvalidAudio(w_file) /\ ~w_api_key)
        => /\ w_http = 0
           /\ w_attempt <= 1
           /\ (w_pc = "requesting" => w_attempt = 0)
           /\ (w_pc = "done" =>
                  /\ w_attempt = 1
                  /\ w_result = Raise("AIServiceConfigError")
                  /\ w_response = Response(503, "NOT_CONFIGURED"))

\* C7 witness: such a request was answered.
C7_Witness ==
    /\ w_pc = "done"
    /\ w_file.present
    /\ ~InvalidAudio(w_file)
    /\ ~w_api_key
    /\ w_response.status = 503

NonEmpty(text) == text # ""

Content(chunk) == chunk.content

\* C8: a stream the provider raised no error in yields the provider's
\* non-empty texts, in order, as chunks with is_final = FALSE, then exactly one
\* chunk with is_final = TRUE and empty content, which is the last one; no
\* final chunk is yielded while the provider is still producing.
C8_StreamYieldsChunksThenOneFinal ==
    /\ s_pc = "streaming" => \A i \in 1..Len(s_chunks) : ~s_chunks[i].is_final
    /\ (s_pc = "done" /\ s_error = "none") =>
          LET n == Len(s_chunks)
          IN  /\ n >= 1
              /\ s_chunks[n].is_final
              /\ s_chunks[n].content = ""
              /\ \A i \in 1..(n - 1) :
                    ~s_chunks[i].is_final /\ s_chunks[i].content # ""
              /\ [i \in 1..(n - 1) |-> Content(s_chunks[i])]
                    = SelectSeq(s_provided, NonEmpty)

\* C8 witness: a finished stream whose provider produced a chunk without text
\* between two chunks with text.
C8_Witness ==
    /\ s_pc = "done"
    /\ s_error = "none"
    /\ s_provided = <<"Xin", "", "chao">>
    /\ Len(s_chunks) = 3

Terminal(event) == event.type \in {"done", "error"}

\* C9: the event stream ends with exactly one terminal event, [DONE] exactly
\* when generation raised no error and otherwise one error event with a code;
\* nothing follows the terminal event.
C9_OneTerminalEventLast ==
    /\ \A i \in 1..Len(s_events) :
          Terminal(s_events[i]) => (i = Len(s_events) /\ s_pc = "done")
    /\ s_pc = "done" =>
          /\ s_events # <<>>
          /\ Terminal(Last(s_events))
          /\ (Last(s_events).type = "done" <=> s_error = "none")
          /\ (Last(s_events).type = "error" => Last(s_events).code # "")

\* C9 witness: the provider raised after two chunk events were sent.
C9_Witness ==
    /\ s_pc = "done"
    /\ s_error = "ServiceUnavailable"
    /\ Len(s_events) = 3
    /\ s_events[1].type = "chunk"
    /\ s_events[2].type = "chunk"
    /\ s_events[3] = ErrorEvent("NETWORK_ERROR")

\* What the claim says of a session after 'end' with the body data.
Ended(before, after, data) ==
    /\ after.status = "completed"
    /\ after.ended_at.some
    /\ after.rating = IF data.rating.some THEN data.rating ELSE before.rating
    /\ after.feedback = IF data.feedback.some THEN Trim(data.feedback.v) ELSE before.feedback

Abandoned(before, after) ==
    /\ after.status = "abandoned"
    /\ after.ended_at.some
    /\ after.rating = before.rating
    /\ after.feedback = before.feedback

OwnActive(user, sid) ==
    /\ c_sessions[sid].exists
    /\ c_sessions[sid].user = user
    /\ c_sessions[sid].status = "active"

\* C10 as stated: every 'end' request of the owner on an active session
\* completes it, every 'abandon' abandons it; both set ended_at; 'end' stores
\* rating and feedback exactly when the request supplies them.
C10_EndAndAbandonOfActiveSession ==
    [][/\ c_response'.op = "end" =>
            \A user \in Users, sid \in SessionIds, data \in EndData :
                (OwnActive(user, sid) /\ end(user, sid, data))
                   => Ended(c_sessions[sid], c_sessions'[sid], data)
       /\ c_response'.op = "abandon" =>
            \A user \in Users, sid \in SessionIds :
                (OwnActive(user, sid) /\ abandon(user, sid))
                   => Abandoned(c_sessions[sid], c_sessions'[sid])]_vars

\* The claim's reading of a well-formed 'end' body.
WellFormed(data) ==
    /\ data.rating.some => data.rating.v \in 1..5
    /\ data.feedback.some => StrLen(Trim(data.feedback.v)) <= 2000

\* C10 amended: the same for every 'end' request whose body passes
\* SessionEndSerializer (rating absent or 1..5, feedback absent or at most 2000
\* characters); an 'end' request with an invalid body is answered 400 and
\* leaves the session as it was.
C10_ValidEndAndAbandonOfActiveSession ==
    [][/\ c_response'.op = "end" =>
            \A user \in Users, sid \in SessionIds, data \in EndData :
                (OwnActive(user, sid) /\ end(user, sid, data))
                   => IF WellFormed(data)
                      THEN /\ Ended(c_sessions[sid], c_sessions'[sid], data)
                           /\ c_response'.status = 200
                      ELSE /\ c_sessions' = c_sessions
                           /\ c_response'.status = 400
       /\ c_response'.op = "abandon" =>
            \A user \in Users, sid \in SessionIds :
                (OwnActive(user, sid) /\ abandon(user, sid))
                   => /\ Abandoned(c_sessions[sid], c_sessions'[sid])
                      /\ c_response'.status = 200]_vars

\* C10 witness: an 'end' without a rating completed a session whose rating a
\* PATCH had set to 3 ('end' itself is only ever sent 4 here), and the rating
\* is still there.
C10_Witness ==
    /\ c_response = Answer("end", 200)
    /\ \E sid \in SessionIds :
          /\ c_sessions[sid].status = "completed"
          /\ c_sessions[sid].ended_at.some
          /\ c_sessions[sid].rating = Some(3)
          /\ c_sessions[sid].feedback = "ok"

OwnNotActive(user, sid) ==
    /\ c_sessions[sid].exists
    /\ c_sessions[sid].user = user
    /\ c_sessions[sid].status # "active"

\* C11: an 'end' or 'abandon' request of the owner on a session whose status
\* is not active is answered 400 and leaves the session's status, ended_at,
\* rating, feedback and total_duration_seconds unchanged, whatever its body.
C11_EndAndAbandonOfEndedSessionRefused ==
    [][/\ c_response'.op = "end" =>
            \A user \in Users, sid \in SessionIds, data \in EndData :
                (OwnNotActive(user, sid) /\ end(user, sid, data))
                   => /\ c_response'.status = 400
                      /\ c_sessions'[sid] = c_sessions[sid]
       /\ c_response'.op = "abandon" =>
            \A user \in Users, sid \in SessionIds :
                (OwnNotActive(user, sid) /\ abandon(user, sid))
                   => /\ c_response'.status = 400
                      /\ c_sessions'[sid] = c_sessions[sid]]_vars

\* C11 witness: 'abandon' was refused on a session that 'end' had completed
\* with rating 4 at a later time than it started; the session is as 'end'
\* left it.
C11_Witness ==
    /\ c_response = Answer("abandon", 400)
    /\ \E sid \in SessionIds :
          /\ c_sessions[sid].status = "completed"
          /\ c_sessions[sid].rating = Some(4)
          /\ c_sessions[sid].ended_at = Some(1)
          /\ c_sessions[sid].total_duration_seconds = 1

\* C12: an add_message request of the owner on a session whose status is not
\* active is answered 400, creates no message and leaves total_messages
\* unchanged; a message is only ever created by an add_message request on a
\* session that is active when the request arrives.
C12_NoMessageInEndedSession ==
    [][/\ c_response'.op = "add_message" =>
            \A user \in Users, sid \in SessionIds, data \in MessageData :
                (OwnNotActive(user, sid) /\ add_message(user, sid, data))
                   => /\ c_response'.status = 400
                      /\ c_messages'[sid] = c_messages[sid]
                      /\ c_sessions'[sid].total_messages = c_sessions[sid].total_messages
       /\ \A sid \in SessionIds :
             Len(c_messages'[sid]) > Len(c_messages[sid])
                => /\ c_sessions[sid].status = "active"
                   /\ c_response' = Answer("add_message", 201)]_vars

\* C12 witness: add_message was refused on a completed session that already
\* holds one message; the message and the count are as they were.
C12_Witness ==
    /\ c_response = Answer("add_message", 400)
    /\ \E sid \in SessionIds :
          /\ c_sessions[sid].status = "completed"
          /\ c_sessions[sid].total_messages = 1
          /\ Len(c_messages[sid]) = 1
          /\ c_messages[sid][1].order = 1

Authorized(user, pid) ==
    /\ c_personas[pid].exists
    /\ c_personas[pid].created_by = user \/ user \in StaffUsers

SessionsOf(pid) == {sid \in SessionIds : c_sessions[sid].exists /\ c_sessions[sid].persona = pid}

HasActiveSession(pid) == \E sid \in SessionsOf(pid) : c_sessions[sid].status = "active"

\* C13: a delete of a persona by its owner or a staff user is refused with
\* 400 while the persona has an active session, and the persona, every
\* session and every message remain; when it has no active session the
\* persona is deleted (204) together with its sessions and their messages,
\* and nothing else is touched.
C13_PersonaDeleteRefusedWhileActive ==
    [][c_response'.op = "destroy" =>
          \A user \in Requesters, pid \in PersonaIds :
              (Authorized(user, pid) /\ destroy(user, pid))
                 => IF HasActiveSession(pid)
                    THEN /\ c_response'.status = 400
                         /\ c_personas' = c_personas
                         /\ c_sessions' = c_sessions
                         /\ c_messages' = c_messages
                    ELSE /\ c_response'.status = 204
                         /\ ~c_personas'[pid].exists
                         /\ \A other \in PersonaIds \ {pid} :
                               c_personas'[other] = c_personas[other]
                         /\ \A sid \in SessionIds :
                               IF sid \in SessionsOf(pid)
                               THEN ~c_sessions'[sid].exists /\ c_messages'[sid] = <<>>
                               ELSE /\ c_sessions'[sid] = c_sessions[sid]
                                    /\ c_messages'[sid] = c_messages[sid]]_vars

\* C13 witness: the delete of a persona was refused; the persona is still
\* there with its active session and the session's message.
C13_Witness ==
    /\ c_response = Answer("destroy", 400)
    /\ \E pid \in PersonaIds, sid \in SessionIds :
          /\ c_personas[pid].exists
          /\ c_sessions[sid].exists
          /\ c_sessions[sid].persona = pid
          /\ c_sessions[sid].status = "active"
          /\ Len(c_messages[sid]) = 1

\* The text of an error mentions one of the phrases, in any case.
Mentions(error, phrases) == lower(error.words) \cap phrases # {}

\* The claim's table from provider error to error code.
TableCode(error) ==
    CASE error.cls = "InvalidArgument" /\ Mentions(error, {"api key", "api_key"})
            -> "API_KEY_ERROR"
      [] error.cls = "InvalidArgument" /\ ~Mentions(error, {"api key", "api_key"})
            -> "GENERATION_ERROR"
      [] error.cls = "PermissionDenied" -> "API_KEY_ERROR"
      [] error.cls = "ResourceExhausted" /\ Mentions(error, {"quota"}) -> "QUOTA_EXCEEDED"
      [] error.cls = "ResourceExhausted" /\ ~Mentions(error, {"quota"}) -> "RATE_LIMIT_ERROR"
      [] error.cls = "DeadlineExceeded" -> "TIMEOUT_ERROR"
      [] error.cls = "ServiceUnavailable" -> "NETWORK_ERROR"
      [] error.cls = "InternalServerError" -> "GENERATION_ERROR"
      [] error.cls \notin GoogleClasses /\ Mentions(error, {"blocked", "safety"})
            -> "CONTENT_FILTERED"
      [] OTHER -> "GENERATION_ERROR"

\* C14: _handle_error never returns normally, and the error it raises for a
\* provider error carries the code the claim's table gives: whenever the
\* provider call of a finished generate_reply failed, the call raised an
\* AIServiceError whose code is the table's code for that provider error.
C14_HandleErrorTable ==
    (g_pc = "done" /\ g_errors # <<>>)
        => /\ g_result.kind = "raise"
           /\ IsAIServiceError(g_result.value)
           /\ ErrorCode(g_result.value) = TableCode(Last(g_errors))

\* C14 witness: an InvalidArgument whose text mentions no API key, but does
\* mention 'blocked' and a quota, was translated by its class, to
\* GENERATION_ERROR.
C14_Witness ==
    /\ g_pc = "done"
    /\ g_errors # <<>>
    /\ Last(g_errors) = [cls |-> "InvalidArgument", words |-> {"blocked", "Quota"}]
    /\ g_result = Raise("GenerationError")

====
